---- MODULE Spec2Model ----
(***************************************************************************)
(* A model of the gadget library (gadgets-rust/src/lib.rs) and of the TCP  *)
(* gadget server (gadgets-rust/src/server.rs).                             *)
(*                                                                         *)
(* Text is modelled as a sequence of one-character strings, so that        *)
(* splitting a request line into tokens, parsing an i32 and formatting an  *)
(* i32 are computed the way the Rust standard library computes them.       *)
(***************************************************************************)
EXTENDS Integers, Sequences, FiniteSets, TLC

(***************************************************************************)
(* i32                                                                     *)
(***************************************************************************)
\* The largest and the smallest value of the i32 type of MaxCell.value and
\* Counter.count.
I32Max == 2147483647
I32Min == -I32Max - 1

(***************************************************************************)
(* Text primitives of the standard library, as the server uses them        *)
(***************************************************************************)
Digits == <<"0", "1", "2", "3", "4", "5", "6", "7", "8", "9">>

IsDigit(ch) == \E i \in 1..10 : Digits[i] = ch

DigitVal(ch) == (CHOOSE i \in 1..10 : Digits[i] = ch) - 1

IsWhitespace(ch) == ch \in {" ", "\t"}

\* str::trim: the text without its leading and trailing whitespace.
RECURSIVE trim_start(_)
trim_start(s) ==
    IF s # <<>> /\ IsWhitespace(Head(s)) THEN trim_start(Tail(s)) ELSE s

RECURSIVE trim_end(_)
trim_end(s) ==
    IF s # <<>> /\ IsWhitespace(s[Len(s)])
    THEN trim_end(SubSeq(s, 1, Len(s) - 1))
    ELSE s

trim(s) == trim_end(trim_start(s))

\* str::split_whitespace: the maximal runs of non-whitespace characters, in
\* order.  cur is the run being read, acc the runs already closed.
RECURSIVE split_from(_, _, _)
split_from(s, cur, acc) ==
    IF s = <<>>
    THEN IF cur = <<>> THEN acc ELSE Append(acc, cur)
    ELSE IF IsWhitespace(Head(s))
         THEN split_from(Tail(s), <<>>,
                         IF cur = <<>> THEN acc ELSE Append(acc, cur))
         ELSE split_from(Tail(s), Append(cur, Head(s)), acc)

split_whitespace(s) == split_from(s, <<>>, <<>>)

\* [&str]::join(sep).
RECURSIVE join(_, _)
join(parts, sep) ==
    IF parts = <<>> THEN <<>>
    ELSE IF Len(parts) = 1 THEN parts[1]
    ELSE parts[1] \o sep \o join(Tail(parts), sep)

\* The digit loop of str::parse::<i32>: acc is the value read so far, neg
\* tells whether the digits are subtracted (a leading "-").  The checked
\* multiplication and the checked addition/subtraction fail on overflow.
RECURSIVE parse_digits(_, _, _)
parse_digits(s, acc, neg) ==
    IF s = <<>> THEN [ok |-> TRUE, val |-> acc]
    ELSE IF ~IsDigit(Head(s)) THEN [ok |-> FALSE, val |-> 0]
    ELSE LET d == DigitVal(Head(s)) IN
         IF neg
         THEN IF acc < (I32Min + d) \div 10 + (IF (I32Min + d) % 10 = 0 THEN 0 ELSE 1)
              THEN [ok |-> FALSE, val |-> 0]
              ELSE parse_digits(Tail(s), acc * 10 - d, neg)
         ELSE IF acc > (I32Max - d) \div 10
              THEN [ok |-> FALSE, val |-> 0]
              ELSE parse_digits(Tail(s), acc * 10 + d, neg)

\* A parser that reads the empty text as 0.
parse_i32_lenient(s) ==
    IF s = <<>> THEN [ok |-> TRUE, val |-> 0]
    ELSE IF Head(s) \in {"+", "-"}
         THEN IF Len(s) = 1 THEN [ok |-> FALSE, val |-> 0]
              ELSE parse_digits(Tail(s), 0, Head(s) = "-")
         ELSE parse_digits(s, 0, FALSE)

\* str::parse::<i32>: an optional sign, then at least one digit, nothing
\* else; Err on the empty text, on a lone sign, on any other character and
\* on overflow.
parse_i32(s) ==
    IF s = <<>> THEN [ok |-> FALSE, val |-> 0]
    ELSE IF Head(s) \in {"+", "-"}
         THEN IF Len(s) = 1 THEN [ok |-> FALSE, val |-> 0]
              ELSE parse_digits(Tail(s), 0, Head(s) = "-")
         ELSE parse_digits(s, 0, FALSE)

\* The decimal digits of n >= 0, most significant first ("" for 0).
RECURSIVE digits_of(_)
digits_of(n) ==
    IF n = 0 THEN <<>> ELSE Append(digits_of(n \div 10), Digits[(n % 10) + 1])

\* The decimal digits of the magnitude of n <= 0, computed without negating
\* n (the magnitude of I32Min is no i32).
RECURSIVE digits_of_neg(_)
digits_of_neg(n) ==
    IF n = 0 THEN <<>>
    ELSE LET r == n % 10
             q == IF r = 0 THEN n \div 10 ELSE n \div 10 + 1
             d == IF r = 0 THEN 0 ELSE 10 - r
         IN  Append(digits_of_neg(q), Digits[d + 1])

\* format!("{}", n) for an i32.
to_string(n) ==
    IF n = 0 THEN <<"0">>
    ELSE IF n > 0 THEN digits_of(n)
    ELSE <<"-">> \o digits_of_neg(n)

(***************************************************************************)
(* The texts of the protocol                                               *)
(***************************************************************************)
W_counter ==
    <<"c", "o", "u", "n", "t", "e", "r">>
W_maxcell ==
    <<"m", "a", "x", "c", "e", "l", "l">>
W_receive ==
    <<"r", "e", "c", "e", "i", "v", "e">>
W_current ==
    <<"c", "u", "r", "r", "e", "n", "t">>
W_create ==
    <<"c", "r", "e", "a", "t", "e">>
W_list ==
    <<"l", "i", "s", "t">>
W_increment ==
    <<"i", "n", "c", "r", "e", "m", "e", "n", "t">>
W_decrement ==
    <<"d", "e", "c", "r", "e", "m", "e", "n", "t">>
W_reset ==
    <<"r", "e", "s", "e", "t">>
ERR_FORMAT ==
    <<"E", "R", "R", "O", "R", ":", " ", "I", "n", "v", "a", "l", "i", "d",
      " ", "c", "o", "m", "m", "a", "n", "d", " ", "f", "o", "r", "m", "a",
      "t", ".", " ", "U", "s", "e", ":", " ", "G", "A", "D", "G", "E", "T",
      "_", "N", "A", "M", "E", " ", "C", "O", "M", "M", "A", "N", "D", " ",
      "[", "D", "A", "T", "A", "]">>
ERR_GADGET ==
    <<"E", "R", "R", "O", "R", ":", " ", "G", "a", "d", "g", "e", "t", " ",
      "'">>
NOT_FOUND ==
    <<"'", " ", "n", "o", "t", " ", "f", "o", "u", "n", "d">>
ERR_INTEGER ==
    <<"E", "R", "R", "O", "R", ":", " ", "I", "n", "v", "a", "l", "i", "d",
      " ", "i", "n", "t", "e", "g", "e", "r">>
CREATED_COUNTER ==
    <<"C", "r", "e", "a", "t", "e", "d", " ", "c", "o", "u", "n", "t", "e",
      "r", " ", "'">>
QUOTE ==
    <<"'">>
CREATED_MAXCELL ==
    <<"C", "r", "e", "a", "t", "e", "d", " ", "m", "a", "x", "c", "e", "l",
      "l", " ", "w", "i", "t", "h", " ", "i", "n", "i", "t", "i", "a", "l",
      " ", "v", "a", "l", "u", "e", " ">>
MAXCELL_PREFIX ==
    <<"m", "a", "x", "c", "e", "l", "l", "_">>
ERR_TYPE ==
    <<"E", "R", "R", "O", "R", ":", " ", "U", "n", "k", "n", "o", "w", "n",
      " ", "g", "a", "d", "g", "e", "t", " ", "t", "y", "p", "e", " ", "'">>
GADGETS_HDR ==
    <<"G", "a", "d", "g", "e", "t", "s", ":", " ">>
COMMA_SP ==
    <<",", " ">>
ERR_ACTION ==
    <<"E", "R", "R", "O", "R", ":", " ", "U", "n", "k", "n", "o", "w", "n",
      " ", "a", "c", "t", "i", "o", "n", " ", "'">>

(***************************************************************************)
(* lib.rs: Effect, MaxCell, Counter                                        *)
(***************************************************************************)
\* enum Effect: Changed(payload), Noop, Custom(key, value).
Changed(payload) == [tag |-> "Changed", payload |-> payload]
Noop == [tag |-> "Noop"]

\* What one call of receive leaves behind: whether it panicked, the state field
\* afterwards and the effect handed to emit.
Outcome(state, effect) == [panic |-> FALSE, state |-> state, effect |-> effect]
\* An arithmetic overflow caught by the build's overflow checks: the addition
\* panics before the field is written and nothing is emitted.
Panicked(state) == [panic |-> TRUE, state |-> state, effect |-> Noop]

\* MaxCell::new.
MaxCell_new(initial) == initial

\* A MaxCell that stores whatever it receives.
MaxCell_receive_latest(cell, data) ==
    Outcome(data, Changed(to_string(data)))

\* MaxCell::receive: cell is the field `value` before the call.
MaxCell_receive(cell, data) ==
    IF data > cell
    THEN Outcome(data, Changed(to_string(data)))
    ELSE Outcome(cell, Noop)

\* Counter::new.
Counter_new == 0

\* `count += 1` on an i32: with overflow checks (a debug build) the addition
\* panics at I32Max, without them (a release build) it wraps to I32Min.
add_one(n, checks) ==
    IF n = I32Max
    THEN IF checks THEN Panicked(n) ELSE Outcome(I32Min, Changed(to_string(I32Min)))
    ELSE Outcome(n + 1, Changed(to_string(n + 1)))

\* `count -= 1` on an i32, likewise.
sub_one(n, checks) ==
    IF n = I32Min
    THEN IF checks THEN Panicked(n) ELSE Outcome(I32Max, Changed(to_string(I32Max)))
    ELSE Outcome(n - 1, Changed(to_string(n - 1)))

\* A Counter that counts increments twice.
Counter_receive_twice(n, data, checks) ==
    IF data = W_increment THEN Outcome(n + 2, Changed(to_string(n + 2)))
    ELSE IF data = W_decrement THEN sub_one(n, checks)
    ELSE IF data = W_reset THEN Outcome(0, Changed(to_string(0)))
    ELSE Outcome(n, Noop)

\* Counter::receive: n is the field `count` before the call, data the
\* command text, checks whether the build checks arithmetic overflow.
Counter_receive(n, data, checks) ==
    IF data = W_increment THEN add_one(n, checks)
    ELSE IF data = W_decrement THEN sub_one(n, checks)
    ELSE IF data = W_reset THEN Outcome(0, Changed(to_string(0)))
    ELSE Outcome(n, Noop)

\* An update that goes through receive: the cell only ever rises.
MaxCell_update_by_receive(cell, new_state) == MaxCell_receive(cell, new_state).state

\* MaxCell::update, Counter::update, BasicGadget::update: the field after the
\* call.
MaxCell_update(cell, new_state) == new_state
Counter_update(n, new_state) == new_state
BasicGadget_update(old_state, new_state) == new_state

(***************************************************************************)
(* lib.rs: SemanticExtension, TappingExtension, BasicGadget                *)
(***************************************************************************)
\* The extensions of the runs.  Suffix and Offset are implementations of
\* SemanticExtension by the user of the library: a Suffix overrides
\* wrap_emit and appends its tag to the payload of a Changed, an Offset
\* overrides wrap_receive and adds to the data.  Tapping is the library's
\* TappingExtension; r names its taps (an Rc shared with its TapHandles).
Suffix(tag) == [kind |-> "Suffix", tag |-> tag]
Offset(by) == [kind |-> "Offset", by |-> by]
Tapping(r) == [kind |-> "Tapping", taps |-> r]

\* TappingExtension::wrap_emit: every tap of the Vec is called, in the order
\* of the Vec, with a clone of the effect; the effect is returned as it came.
\* len is the length of the Vec.
TappingExtension_wrap_emit(r, len, effect) ==
    [effect |-> effect,
     calls |-> [i \in 1..len |-> [tap |-> <<r, i>>, effect |-> effect]]]

\* ext.wrap_emit(effect): the effect returned and the observers called.
wrap_emit(ext, tap_lens, effect) ==
    IF ext.kind = "Tapping"
    THEN TappingExtension_wrap_emit(ext.taps, tap_lens[ext.taps], effect)
    ELSE IF ext.kind = "Suffix" /\ effect.tag = "Changed"
    THEN [effect |-> Changed(effect.payload \o ext.tag), calls |-> <<>>]
    ELSE [effect |-> effect, calls |-> <<>>]

\* ext.wrap_receive(data): the trait's default returns the data as it came.
wrap_receive(ext, data) ==
    IF ext.kind = "Offset" THEN data + ext.by ELSE data

\* BasicGadget::emit, the loop over self.extensions from the i-th on.
RECURSIVE emit_loop(_, _, _, _, _)
emit_loop(exts, tap_lens, i, final_effect, calls) ==
    IF i > Len(exts)
    THEN [final |-> final_effect, calls |-> calls]
    ELSE LET w == wrap_emit(exts[i], tap_lens, final_effect)
         IN  emit_loop(exts, tap_lens, i + 1, w.effect, calls \o w.calls)

\* An emit that goes through the extensions last to first.
BasicGadget_emit_backwards(exts, tap_lens, effect) ==
    emit_loop([i \in 1..Len(exts) |-> exts[Len(exts) + 1 - i]], tap_lens, 1,
              effect, <<>>)

\* BasicGadget::emit: the effect it ends with and the observers it called.
BasicGadget_emit(exts, tap_lens, effect) ==
    emit_loop(exts, tap_lens, 1, effect, <<>>)

\* ConsiderResult.
Action(name) == [tag |-> "Action", name |-> name]
Nothing == [tag |-> "Nothing"]

\* The decision functions of the runs (the `consider` handed to
\* BasicGadget::new): "max" asks for "set" when the data is above the state,
\* "always" asks for "set" whatever the data.
consider_call(f, current, data) ==
    IF f = "max" THEN (IF data > current THEN Action("set") ELSE Nothing)
    ELSE Action("set")

\* The actions of the runs (the `actions` handed to BasicGadget::new): "set"
\* stores the data and returns Changed(data), "clear" stores 0 and returns
\* Noop.
action_call(name, current, data) ==
    IF name = "set"
    THEN [state |-> data, effect |-> Changed(to_string(data))]
    ELSE [state |-> 0, effect |-> Noop]

\* A receive that emits Noop when no action runs, as MaxCell's does.
BasicGadget_receive_noisy(current, f, table, exts, tap_lens, data) ==
    LET result == consider_call(f, current, data) IN
    IF result.tag = "Action" /\ result.name \in table
    THEN LET a == action_call(result.name, current, data)
             e == BasicGadget_emit(exts, tap_lens, a.effect)
         IN  [state |-> a.state, considered |-> data, acted |-> TRUE,
              emits |-> <<a.effect>>, final |-> e.final, calls |-> e.calls]
    ELSE LET e == BasicGadget_emit(exts, tap_lens, Noop)
         IN  [state |-> current, considered |-> data, acted |-> FALSE,
              emits |-> <<Noop>>, final |-> e.final, calls |-> e.calls]

\* BasicGadget::receive: the state afterwards, the data the decision function
\* was called with, whether an action ran, the effects emit was called with
\* (one or none), and what that emit ended with and called.
BasicGadget_receive(current, f, table, exts, tap_lens, data) ==
    LET result == consider_call(f, current, data) IN
    IF result.tag = "Action" /\ result.name \in table
    THEN LET a == action_call(result.name, current, data)
             e == BasicGadget_emit(exts, tap_lens, a.effect)
         IN  [state |-> a.state, considered |-> data, acted |-> TRUE,
              emits |-> <<a.effect>>, final |-> e.final, calls |-> e.calls]
    ELSE [state |-> current, considered |-> data, acted |-> FALSE,
          emits |-> <<>>, final |-> Noop, calls |-> <<>>]

(***************************************************************************)
(* server.rs: the handlers of the registry                                 *)
(***************************************************************************)
\* A registry entry: Box<dyn GadgetHandler>, a CounterHandler or a
\* MaxCellHandler around the gadget's state.
CounterHandler(count) == [handler |-> "CounterHandler", state |-> count]
MaxCellHandler(value) == [handler |-> "MaxCellHandler", state |-> value]

\* GadgetHandler::receive, the part that changes the gadget: the entry after
\* the call (or a panic).  A MaxCellHandler whose data is no i32 leaves the
\* MaxCell alone.
handler_receive(h, data, checks) ==
    IF h.handler = "CounterHandler"
    THEN Counter_receive(h.state, data, checks)
    ELSE LET value == parse_i32(data) IN
         IF value.ok THEN MaxCell_receive(h.state, value.val)
         ELSE Outcome(h.state, Noop)

\* GadgetHandler::current: the text of the gadget's state.
handler_current(h) == to_string(h.state)

\* GadgetHandler::receive, the text it returns once the gadget has received:
\* the text of current(), or the MaxCellHandler's complaint about its data.
handler_receive_reply(h, data) ==
    IF h.handler = "MaxCellHandler" /\ ~parse_i32(data).ok
    THEN ERR_INTEGER
    ELSE handler_current(h)

\* GadgetServer::new: the default registry.
DefaultGadgets ==
    (W_counter :> CounterHandler(Counter_new))
        @@ (W_maxcell :> MaxCellHandler(MaxCell_new(0)))

\* An insert that keeps the entry a key already has.
insert_if_absent(map, key, value) ==
    [k \in DOMAIN map \cup {key} |-> IF k \in DOMAIN map THEN map[k] ELSE value]

\* HashMap::insert: the entry under key, whatever was there, is value.
insert(map, key, value) ==
    [k \in DOMAIN map \cup {key} |-> IF k = key THEN value ELSE map[k]]

(***************************************************************************)
(* server.rs: process_command                                              *)
(***************************************************************************)
SP == <<" ">>

\* process_command, lines 129-141: the tokens of the line, and the name, the
\* action and the data they hold.
parts_of(command) == split_whitespace(trim(command))
gadget_name_of(parts) == parts[1]
action_of(parts) == parts[2]
data_of(parts) ==
    IF Len(parts) > 2 THEN join(SubSeq(parts, 3, Len(parts)), SP) ELSE <<>>

\* data.parse::<i32>().unwrap_or(0) of the maxcell arm of create.
initial_of(data) == IF parse_i32(data).ok THEN parse_i32(data).val ELSE 0

\* A receive arm that registers a counter under a name it does not find.
match_mutate_or_insert(map, name, action, data, checks) ==
    IF action = W_receive /\ name \notin DOMAIN map
    THEN [panic |-> FALSE, map |-> insert(map, name, CounterHandler(Counter_new))]
    ELSE IF action = W_receive
    THEN LET o == handler_receive(map[name], data, checks) IN
         [panic |-> o.panic,
          map |-> IF o.panic THEN map ELSE [map EXCEPT ![name].state = o.state]]
    ELSE IF action = W_create /\ name = W_counter
    THEN [panic |-> FALSE, map |-> insert(map, data, CounterHandler(Counter_new))]
    ELSE IF action = W_create /\ name = W_maxcell
    THEN [panic |-> FALSE,
          map |-> insert(map, MAXCELL_PREFIX \o to_string(initial_of(data)),
                         MaxCellHandler(MaxCell_new(initial_of(data))))]
    ELSE [panic |-> FALSE, map |-> map]

\* A create arm that starts the registry afresh with the new counter alone.
match_mutate_evicting(map, name, action, data, checks) ==
    IF action = W_receive /\ name \in DOMAIN map
    THEN LET o == handler_receive(map[name], data, checks) IN
         [panic |-> o.panic,
          map |-> IF o.panic THEN map ELSE [map EXCEPT ![name].state = o.state]]
    ELSE IF action = W_create /\ name = W_counter
    THEN [panic |-> FALSE, map |-> (data :> CounterHandler(Counter_new))]
    ELSE IF action = W_create /\ name = W_maxcell
    THEN [panic |-> FALSE,
          map |-> insert(map, MAXCELL_PREFIX \o to_string(initial_of(data)),
                         MaxCellHandler(MaxCell_new(initial_of(data))))]
    ELSE [panic |-> FALSE, map |-> map]

\* The arms of `match action`, as far as they change the registry: the
\* registry afterwards, or a panic of the gadget's receive.
match_mutate(map, name, action, data, checks) ==
    IF action = W_receive /\ name \in DOMAIN map
    THEN LET o == handler_receive(map[name], data, checks) IN
         [panic |-> o.panic,
          map |-> IF o.panic THEN map ELSE [map EXCEPT ![name].state = o.state]]
    ELSE IF action = W_create /\ name = W_counter
    THEN [panic |-> FALSE, map |-> insert(map, data, CounterHandler(Counter_new))]
    ELSE IF action = W_create /\ name = W_maxcell
    THEN [panic |-> FALSE,
          map |-> insert(map, MAXCELL_PREFIX \o to_string(initial_of(data)),
                         MaxCellHandler(MaxCell_new(initial_of(data))))]
    ELSE [panic |-> FALSE, map |-> map]

\* The arms of `match action`, as far as they compose the reply from the
\* registry as the arm left it.  keys is the order in which HashMap::keys
\* yields the names.
match_reply(map, name, action, data, keys) ==
    IF action = W_receive
    THEN IF name \in DOMAIN map
         THEN handler_receive_reply(map[name], data)
         ELSE ERR_GADGET \o name \o NOT_FOUND
    ELSE IF action = W_current
    THEN IF name \in DOMAIN map
         THEN handler_current(map[name])
         ELSE ERR_GADGET \o name \o NOT_FOUND
    ELSE IF action = W_create
    THEN IF name = W_counter THEN CREATED_COUNTER \o data \o QUOTE
         ELSE IF name = W_maxcell
         THEN CREATED_MAXCELL \o to_string(initial_of(data))
         ELSE ERR_TYPE \o name \o QUOTE
    ELSE IF action = W_list
    THEN GADGETS_HDR \o join(keys, COMMA_SP)
    ELSE ERR_ACTION \o action \o QUOTE

\* The orders in which a HashMap may yield its keys: every arrangement of
\* them, each key once.
KeyOrders(map) ==
    {ks \in [1..Cardinality(DOMAIN map) -> DOMAIN map] :
        \A i, j \in DOMAIN ks : i # j => ks[i] # ks[j]}

(***************************************************************************)
(* Bounds and inputs                                                       *)
(***************************************************************************)
\* The number of lines a client sends on its connection.
MaxReq == 2

\* The client connections: two, each served by a thread of its own.
Conns == {1, 2}

W_bogus == <<"b", "o", "g", "u", "s">>
W_myctr == <<"m", "y", "c", "t", "r">>
W_widget == <<"w", "i", "d", "g", "e", "t">>
W_frob == <<"f", "r", "o", "b">>
W_abc == <<"a", "b", "c">>

W_seven == <<"7">>

L_increment == join(<<W_counter, W_receive, W_increment>>, SP)
\* `counter current` with whitespace around and between the tokens.
L_current == <<" ">> \o W_counter \o <<" ", "\t">> \o W_current \o <<" ">>
L_max5 == join(<<W_maxcell, W_receive, <<"5">>>>, SP)
L_max3 == join(<<W_maxcell, W_receive, <<"3">>>>, SP)
L_max_abc == join(<<W_maxcell, W_receive, W_abc>>, SP)
L_max_empty == join(<<W_maxcell, W_receive>>, SP)
L_bogus_current == join(<<W_bogus, W_current>>, SP)
L_bogus_receive == join(<<W_bogus, W_receive, W_increment>>, SP)
L_list == W_list
L_bogus_list == join(<<W_bogus, W_list>>, SP)
L_create_myctr == join(<<W_counter, W_create, W_myctr>>, SP)
L_myctr_increment == join(<<W_myctr, W_receive, W_increment>>, SP)
L_create_over_maxcell == join(<<W_counter, W_create, W_maxcell>>, SP)
L_maxcell_increment == join(<<W_maxcell, W_receive, W_increment>>, SP)
L_create_maxcell7 == join(<<W_maxcell, W_create, W_seven>>, SP)
L_create_widget == join(<<W_widget, W_create, W_myctr>>, SP)
L_frob == join(<<W_counter, W_frob>>, SP)
L_empty == <<>>

\* The request lines the clients of one run send: the clients of a run speak
\* one of these vocabularies.
\*   the requests of the default gadgets
DefaultLines == {L_increment, L_current, L_max5, L_max3}
\*   requests that are answered with an error, and one that is not
ErrorLines ==
    {L_bogus_current, L_bogus_receive, L_max_abc, L_max_empty, L_empty,
     L_frob, L_create_widget, L_max3}
\*   requests that create counters and use them
CreateLines ==
    {L_create_myctr, L_myctr_increment, L_create_over_maxcell,
     L_maxcell_increment}
\*   requests that list the registry, and one that adds to it
ListLines == {L_list, L_bogus_list, L_create_maxcell7}

Vocabularies == {DefaultLines, ErrorLines, CreateLines, ListLines}

(***************************************************************************)
(* Reading texts, for the properties                                       *)
(***************************************************************************)
IsPrefix(p, s) == Len(p) <= Len(s) /\ SubSeq(s, 1, Len(p)) = p

Contains(s, sub) ==
    \E i \in 1..(Len(s) - Len(sub) + 1) : SubSeq(s, i, i + Len(sub) - 1) = sub

\* A reply that reports a failure: ERROR: <reason>.
IsError(s) == IsPrefix(<<"E", "R", "R", "O", "R", ":">>, s)

\* An optional sign and then digits, at least one and few enough for any
\* such text to denote an i32.
IsIntegerText(s) ==
    LET ds == IF s # <<>> /\ Head(s) \in {"+", "-"} THEN Tail(s) ELSE s
    IN  /\ Len(ds) \in 1..9
        /\ \A i \in 1..Len(ds) : IsDigit(ds[i])

\* A text that is no integer at all.
IsNoInteger(s) ==
    LET ds == IF s # <<>> /\ Head(s) \in {"+", "-"} THEN Tail(s) ELSE s
    IN  ds = <<>> \/ \E i \in 1..Len(ds) : ~IsDigit(ds[i])

\* A request the server cannot act on: fewer than two tokens, an action it
\* does not know, or a create of a kind it does not know.
Malformed(p) ==
    \/ Len(p) < 2
    \/ action_of(p) \notin {W_receive, W_current, W_create, W_list}
    \/ action_of(p) = W_create /\ gadget_name_of(p) \notin {W_counter, W_maxcell}

(***************************************************************************)
(* State                                                                   *)
(***************************************************************************)
VARIABLES
    gadgets,          \* GadgetServer.gadgets: the registry, name -> handler
    lock,             \* the connection holding the registry's Mutex, 0: none
    poisoned,         \* the Mutex is poisoned: a holder panicked
    overflow_checks,  \* the build checks arithmetic overflow
    pc,               \* per connection: where its thread stands
    line,             \* per connection: the request line it read
    parts,            \* per connection: the tokens of the line
    response,         \* per connection: the reply composed so far
    nread,            \* per connection: the lines read so far
    vocabulary        \* the request lines the clients of this run send

\* History of the server, kept for the properties only: no action reads it
\* to decide what the server does.
VARIABLES
    serial,           \* the registry had every dispatch run whole, in lock order
    expect,           \* per connection: the reply of its dispatch run whole
    before,           \* the registry when the present holder took the lock
    e2e_counter,      \* dispatches so far are the first k of E2ECounter, or -1
    e2e_maxcell,      \* dispatches so far are the first k of E2EMaxCell, or -1
    last_created,     \* the name the latest finished dispatch created a
                      \* counter under; NoName if it created none
    answered,         \* per connection, the latest reply written on it:
                      \* "malformed" if it answered a malformed request,
                      \* else "error" if it began with ERROR, else "ok";
                      \* "none" if no reply was written
    nwritten          \* per connection: the reply lines written so far

\* A gadget used directly through the Gadget trait (lib.rs), outside the
\* server.
VARIABLES
    subject,          \* which gadget the run exercises
    value,            \* MaxCell.value
    count,            \* Counter.count
    unwound,          \* a call on the gadget panicked
    ops,              \* the calls made so far
    v0,               \* history: the initial value of the MaxCell
    received,         \* history: the values the MaxCell has received
    base,             \* history: the Counter's count when the run or the
                      \* latest reset started counting
    delta             \* history: increments minus decrements since then

\* A BasicGadget over i32 states and i32 data with its extensions (lib.rs),
\* and what the calls on any of the three gadgets did.
VARIABLES
    state,            \* BasicGadget.state
    consider,         \* BasicGadget.consider: the decision function
    actions,          \* BasicGadget.actions: the names in the action table
    extensions,       \* BasicGadget.extensions
    taps,             \* per TappingExtension made: the length of its taps
    handles,          \* the TapHandles alive
    revoked,          \* history: the observers whose TapHandle was dropped
    last_op,          \* history: the latest call on the gadget
    last_arg,         \* history: its argument
    considered,       \* history: the data the decision function saw in it
    nconsider,        \* history: the calls of the decision function in it
    nacts,            \* history: the calls of actions in it
    nemits,           \* history: the calls of emit in it
    emitted,          \* history: the effect emit was called with in it
    delivered,        \* history: the effect that emit ended with
    trace             \* history: the observers that emit invoked, in order,
                      \* each with the effect it was handed

svars == <<gadgets, lock, poisoned, overflow_checks, pc, line, parts, response,
           nread, vocabulary>>
hvars == <<serial, expect, before, e2e_counter, e2e_maxcell, last_created,
           answered, nwritten>>
lvars == <<subject, value, count, unwound, ops, v0, received, base, delta>>
gadget == <<state, consider, actions, extensions, taps, handles, revoked>>
gvars == <<state, consider, actions, extensions, taps, handles, revoked,
           last_op, last_arg, considered, nconsider, nacts, nemits, emitted,
           delivered, trace>>
vars == <<svars, hvars, lvars, gvars>>

NoName == <<"\t">>

\* The requests of the two end-to-end runs, as tokens.
E2ECounter ==
    << <<W_counter, W_receive, W_increment>>,
       <<W_counter, W_receive, W_increment>>,
       <<W_counter, W_receive, W_increment>>,
       <<W_counter, W_current>> >>
E2EMaxCell ==
    << <<W_maxcell, W_receive, <<"5">>>>,
       <<W_maxcell, W_receive, <<"3">>>> >>

\* A run kept as long as the dispatches follow the script: k dispatches
\* seen, the next one is request req.
Follow(script, k, req) ==
    IF k >= 0 /\ k < Len(script) /\ script[k + 1] = req THEN k + 1 ELSE -1

\* process_command run whole on registry map.
whole_mutate(map, p, checks) ==
    match_mutate(map, gadget_name_of(p), action_of(p), data_of(p), checks).map
\* The reply of request p composed from registry m, the registry as p's arm
\* left it (the reply of a list depends on the order of the keys and is
\* left out).
reply_after(m, p) ==
    IF action_of(p) = W_list THEN <<>>
    ELSE match_reply(m, gadget_name_of(p), action_of(p), data_of(p), <<>>)
whole_reply(map, p, checks) == reply_after(whole_mutate(map, p, checks), p)

\* The positions of a connection thread:
\*   "read"   handle_client, blocked in reader.lines()
\*   "lock"   process_command, before gadgets.lock()
\*   "match"  holding the lock, before the arm of `match action` acts
\*   "reply"  holding the lock, the arm has acted, the reply is not composed
\*   "unlock" holding the lock, the reply is composed
\*   "write"  handle_client, before writeln!/flush
\*   "closed" the stream ended and the client loop with it
\*   "broken" a read failed and the client loop broke
\*   "panicked" the thread has panicked
InitServer ==
    /\ gadgets = DefaultGadgets
    /\ lock = 0
    /\ poisoned = FALSE
    /\ pc = [c \in Conns |-> "read"]
    /\ line = [c \in Conns |-> <<>>]
    /\ parts = [c \in Conns |-> <<>>]
    /\ response = [c \in Conns |-> <<>>]
    /\ nread = [c \in Conns |-> 0]
    /\ serial = DefaultGadgets
    /\ expect = [c \in Conns |-> <<>>]
    /\ before = DefaultGadgets
    /\ e2e_counter = 0
    /\ e2e_maxcell = 0
    /\ last_created = NoName
    /\ answered = [c \in Conns |-> "none"]
    /\ nwritten = [c \in Conns |-> 0]

\* No BasicGadget is made, and no call on a gadget.
InitNoGadget ==
    /\ state = 0
    /\ consider = "none"
    /\ actions = {}
    /\ extensions = <<>>
    /\ taps = <<>>
    /\ handles = {}
    /\ revoked = {}
    /\ last_op = "none"
    /\ last_arg = 0
    /\ considered = 0
    /\ nconsider = 0
    /\ nacts = 0
    /\ nemits = 0
    /\ emitted = Noop
    /\ delivered = Noop
    /\ trace = <<>>

\* No gadget is used outside the server.
InitNoSubject ==
    /\ subject = "server"
    /\ value = 0
    /\ count = 0
    /\ unwound = FALSE
    /\ ops = 0
    /\ v0 = 0
    /\ received = {}
    /\ base = 0
    /\ delta = 0
    /\ InitNoGadget

Init ==
    /\ InitServer
    /\ overflow_checks \in BOOLEAN
    /\ vocabulary \in Vocabularies
    /\ InitNoSubject

(***************************************************************************)
(* server.rs: handle_client and process_command, step by step              *)
(***************************************************************************)
\* A loop that reads the next line while the reply to the last one is still
\* unwritten, and drops that reply.
ReadLinePipelined(c) ==
    /\ pc[c] \in {"read", "write"}
    /\ nread[c] < MaxReq
    /\ \E l \in vocabulary :
        /\ line' = [line EXCEPT ![c] = l]
        /\ parts' = [parts EXCEPT ![c] = parts_of(l)]
        /\ IF Len(parts_of(l)) < 2
           THEN /\ response' = [response EXCEPT ![c] = ERR_FORMAT]
                /\ pc' = [pc EXCEPT ![c] = "write"]
           ELSE /\ response' = [response EXCEPT ![c] = <<>>]
                /\ pc' = [pc EXCEPT ![c] = "lock"]
    /\ nread' = [nread EXCEPT ![c] = @ + 1]
    /\ UNCHANGED <<gadgets, lock, poisoned, overflow_checks, vocabulary, hvars, lvars, gvars>>

\* handle_client: reader.lines() yields Ok(line); process_command splits it
\* and answers a line of fewer than two tokens at once, without the lock.
ReadLine(c) ==
    /\ pc[c] = "read"
    /\ nread[c] < MaxReq
    /\ \E l \in vocabulary :
        /\ line' = [line EXCEPT ![c] = l]
        /\ parts' = [parts EXCEPT ![c] = parts_of(l)]
        /\ IF Len(parts_of(l)) < 2
           THEN /\ response' = [response EXCEPT ![c] = ERR_FORMAT]
                /\ pc' = [pc EXCEPT ![c] = "write"]
           ELSE /\ response' = [response EXCEPT ![c] = <<>>]
                /\ pc' = [pc EXCEPT ![c] = "lock"]
    /\ nread' = [nread EXCEPT ![c] = @ + 1]
    /\ UNCHANGED <<gadgets, lock, poisoned, overflow_checks, vocabulary, hvars, lvars, gvars>>

\* handle_client: reader.lines() ends (the client closed the stream).
ReadEof(c) ==
    /\ pc[c] = "read"
    /\ pc' = [pc EXCEPT ![c] = "closed"]
    /\ UNCHANGED <<gadgets, lock, poisoned, overflow_checks, vocabulary, line, parts,
                   response, nread, hvars, lvars, gvars>>

\* handle_client: reader.lines() yields Err: the loop breaks.
ReadErr(c) ==
    /\ pc[c] = "read"
    /\ pc' = [pc EXCEPT ![c] = "broken"]
    /\ UNCHANGED <<gadgets, lock, poisoned, overflow_checks, vocabulary, line, parts,
                   response, nread, hvars, lvars, gvars>>

\* A Mutex that lets a thread in while another holds it.
MutexNeverBlocks == TRUE

\* Mutex::lock blocks while another thread holds the Mutex.
MutexFree == lock = 0

\* process_command, line 143: gadgets.lock().unwrap().  On a poisoned Mutex
\* lock() returns Err and unwrap panics, the guard inside the error is
\* dropped and the Mutex is free again.
Lock(c) ==
    /\ pc[c] = "lock"
    /\ MutexFree
    /\ IF poisoned
       THEN /\ pc' = [pc EXCEPT ![c] = "panicked"]
            /\ UNCHANGED <<lock, hvars>>
       ELSE /\ pc' = [pc EXCEPT ![c] = "match"]
            /\ lock' = c
            /\ \E m \in {whole_mutate(serial, parts[c], overflow_checks)} :
                  /\ serial' = m
                  /\ expect' = [expect EXCEPT ![c] = reply_after(m, parts[c])]
            /\ before' = gadgets
            /\ e2e_counter' = Follow(E2ECounter, e2e_counter, parts[c])
            /\ e2e_maxcell' = Follow(E2EMaxCell, e2e_maxcell, parts[c])
            /\ UNCHANGED <<last_created, answered, nwritten>>
    /\ UNCHANGED <<gadgets, poisoned, overflow_checks, vocabulary, line, parts, response,
                   nread, lvars, gvars>>

\* The arm acts and the guard is dropped at once, before the reply is composed.
MutateThenRelease(c) ==
    /\ pc[c] = "match"
    /\ pc' = [pc EXCEPT ![c] = "reply"]
    /\ gadgets' = match_mutate(gadgets, gadget_name_of(parts[c]), action_of(parts[c]),
                               data_of(parts[c]), overflow_checks).map
    /\ lock' = 0
    /\ UNCHANGED <<poisoned, overflow_checks, vocabulary, line, parts, response,
                   nread, hvars, lvars, gvars>>

\* process_command, lines 145-189: the arm of `match action` looks the name up
\* and changes the registry.  A panic of the gadget unwinds the thread: the
\* guard is dropped, which frees the Mutex and poisons it.
Mutate(c) ==
    /\ pc[c] = "match"
    /\ LET m == match_mutate(gadgets, gadget_name_of(parts[c]), action_of(parts[c]),
                             data_of(parts[c]), overflow_checks)
       IN  IF m.panic
           THEN /\ pc' = [pc EXCEPT ![c] = "panicked"]
                /\ lock' = 0
                /\ poisoned' = TRUE
                /\ gadgets' = gadgets
           ELSE /\ pc' = [pc EXCEPT ![c] = "reply"]
                /\ gadgets' = m.map
                /\ UNCHANGED <<lock, poisoned>>
    /\ UNCHANGED <<overflow_checks, vocabulary, line, parts, response, nread, hvars, lvars, gvars>>

\* process_command, lines 145-189: the arm composes the reply.
Reply(c) ==
    /\ pc[c] = "reply"
    /\ \E keys \in (IF action_of(parts[c]) = W_list
                    THEN KeyOrders(gadgets) ELSE {<<>>}) :
        response' = [response EXCEPT ![c] =
            match_reply(gadgets, gadget_name_of(parts[c]), action_of(parts[c]),
                        data_of(parts[c]), keys)]
    /\ pc' = [pc EXCEPT ![c] = "unlock"]
    /\ UNCHANGED <<gadgets, lock, poisoned, overflow_checks, vocabulary, line, parts,
                   nread, hvars, lvars, gvars>>

\* A guard that outlives process_command: the reply is written with the
\* Mutex still held.
UnlockAfterWrite(c) ==
    /\ pc[c] = "unlock"
    /\ pc' = [pc EXCEPT ![c] = "write"]
    /\ last_created' =
           IF action_of(parts[c]) = W_create /\ gadget_name_of(parts[c]) = W_counter
           THEN data_of(parts[c]) ELSE NoName
    /\ UNCHANGED <<gadgets, lock, poisoned, overflow_checks, vocabulary, line, parts,
                   response, nread, serial, before, e2e_counter, e2e_maxcell,
                   answered, nwritten, lvars, gvars>>
    /\ expect' = [expect EXCEPT ![c] = <<>>]

\* process_command returns: gadgets_lock is dropped.
Unlock(c) ==
    /\ pc[c] = "unlock"
    /\ lock' = 0
    /\ pc' = [pc EXCEPT ![c] = "write"]
    /\ last_created' =
           IF action_of(parts[c]) = W_create /\ gadget_name_of(parts[c]) = W_counter
           THEN data_of(parts[c]) ELSE NoName
    /\ UNCHANGED <<gadgets, poisoned, overflow_checks, vocabulary, line, parts, response,
                   nread, serial, before, e2e_counter, e2e_maxcell, answered,
                   nwritten, lvars, gvars>>
    /\ expect' = [expect EXCEPT ![c] = <<>>]

\* The reply is written, and the loop ends if it was an error reply.
WriteThenCloseOnError(c) ==
    /\ pc[c] = "write"
    /\ pc' = [pc EXCEPT ![c] = IF IsError(response[c]) THEN "closed" ELSE "read"]
    /\ line' = [line EXCEPT ![c] = <<>>]
    /\ parts' = [parts EXCEPT ![c] = <<>>]
    /\ response' = [response EXCEPT ![c] = <<>>]
    /\ answered' = [answered EXCEPT ![c] =
                        IF Malformed(parts[c]) THEN "malformed"
                        ELSE IF IsError(response[c]) THEN "error" ELSE "ok"]
    /\ nwritten' = [nwritten EXCEPT ![c] = @ + 1]
    /\ UNCHANGED <<gadgets, lock, poisoned, overflow_checks, vocabulary, nread,
                   serial, expect, before, e2e_counter, e2e_maxcell,
                   last_created, lvars, gvars>>

\* handle_client, lines 114-115: the reply is written and flushed, and the
\* loop goes on to the next line.
Write(c) ==
    /\ pc[c] = "write"
    /\ pc' = [pc EXCEPT ![c] = "read"]
    /\ line' = [line EXCEPT ![c] = <<>>]
    /\ parts' = [parts EXCEPT ![c] = <<>>]
    /\ response' = [response EXCEPT ![c] = <<>>]
    /\ answered' = [answered EXCEPT ![c] =
                        IF Malformed(parts[c]) THEN "malformed"
                        ELSE IF IsError(response[c]) THEN "error" ELSE "ok"]
    /\ nwritten' = [nwritten EXCEPT ![c] = @ + 1]
    /\ UNCHANGED <<gadgets, lock, poisoned, overflow_checks, vocabulary, nread,
                   serial, expect, before, e2e_counter, e2e_maxcell,
                   last_created, lvars, gvars>>

\* A failed write that takes the registry's Mutex down with it.
WriteFailPoisons(c) ==
    /\ pc[c] = "write"
    /\ pc' = [pc EXCEPT ![c] = "panicked"]
    /\ poisoned' = TRUE
    /\ UNCHANGED <<gadgets, lock, overflow_checks, vocabulary, line, parts,
                   response, nread, hvars, lvars, gvars>>

\* handle_client, lines 114-115: writeln! or flush fails and unwrap panics.
WriteFail(c) ==
    /\ pc[c] = "write"
    /\ pc' = [pc EXCEPT ![c] = "panicked"]
    /\ UNCHANGED <<gadgets, lock, poisoned, overflow_checks, vocabulary, line, parts,
                   response, nread, hvars, lvars, gvars>>

Next ==
    \E c \in Conns :
        \/ ReadLine(c)
        \/ ReadEof(c)
        \/ ReadErr(c)
        \/ Lock(c)
        \/ Mutate(c)
        \/ Reply(c)
        \/ Unlock(c)
        \/ Write(c)
        \/ WriteFail(c)

Spec == Init /\ [][Next]_vars

(***************************************************************************)
(* The server with its counter at the end of the i32 range                 *)
(***************************************************************************)
L_decrement == join(<<W_counter, W_receive, W_decrement>>, SP)

\* The requests of a run at the limit.
LimitLines == {L_increment, L_decrement, L_current}

\* The counts at which the run picks the server up: one increment short of
\* the largest i32 (I32Max - 1 `counter receive increment` after the start),
\* or one decrement short of the smallest.
CounterNearLimit == {I32Max - 1, I32Min + 1}

\* The registry after that many requests.
GadgetsNearLimit(n) ==
    (W_counter :> CounterHandler(n)) @@ (W_maxcell :> MaxCellHandler(MaxCell_new(0)))

\* Every connection of the run is newly accepted; the earlier ones are gone.
InitAtLimit ==
    /\ \E n \in CounterNearLimit :
          /\ gadgets = GadgetsNearLimit(n)
          /\ serial = GadgetsNearLimit(n)
          /\ before = GadgetsNearLimit(n)
    /\ lock = 0
    /\ poisoned = FALSE
    /\ pc = [c \in Conns |-> "read"]
    /\ line = [c \in Conns |-> <<>>]
    /\ parts = [c \in Conns |-> <<>>]
    /\ response = [c \in Conns |-> <<>>]
    /\ nread = [c \in Conns |-> 0]
    /\ expect = [c \in Conns |-> <<>>]
    /\ e2e_counter = -1
    /\ e2e_maxcell = -1
    /\ last_created = NoName
    /\ answered = [c \in Conns |-> "none"]
    /\ nwritten = [c \in Conns |-> 0]
    /\ overflow_checks \in BOOLEAN
    /\ vocabulary = LimitLines
    /\ InitNoSubject

\* Scheduling: a thread that can take a step of its dispatch takes it.  Each
\* connection has a thread of its own (GadgetServer::start), the steps
\* between lock() and the return of process_command wait for nothing, and
\* lock() returns once the Mutex stays free.  Reading and writing wait for
\* the client and are not assumed to happen.
Fairness ==
    \A c \in Conns :
        /\ WF_vars(Lock(c))
        /\ WF_vars(Mutate(c))
        /\ WF_vars(Reply(c))
        /\ WF_vars(Unlock(c))

SpecAtLimit == InitAtLimit /\ [][Next]_vars /\ Fairness

(***************************************************************************)
(* lib.rs: a MaxCell or a Counter used through the Gadget trait            *)
(***************************************************************************)
\* The number of calls made on the gadget.
MaxOps == 3

\* The initial values of the MaxCell, and the values it receives.
MaxCellInitials == {-3, 0, 5}
MaxCellInputs == {I32Min, -3, 0, 3, 5, I32Max}

\* The counts at which a run picks the Counter up: as Counter::new leaves
\* it, or as I32Max - 1 increments, or I32Max decrements, since then leave
\* it.
CounterStarts == {0, I32Max - 1, I32Min + 1}
\* The commands the Counter receives.
CounterCommands == {W_increment, W_decrement, W_reset, W_frob}

\* The BasicGadgets of the runs, as BasicGadget::new is handed them: one that
\* keeps the maximum, and one whose decision function asks for an action its
\* table lacks.
Constructions == { <<"max", {"set", "clear"}>>, <<"always", {"clear"}>> }

InitLib ==
    /\ InitServer
    /\ overflow_checks \in BOOLEAN
    /\ vocabulary = {}
    /\ subject \in {"MaxCell", "Counter", "BasicGadget"}
    /\ IF subject = "BasicGadget"
       THEN /\ state = 0
            /\ \E made \in Constructions :
                  consider = made[1] /\ actions = made[2]
            /\ extensions = <<>>
            /\ taps = <<>>
            /\ handles = {}
            /\ revoked = {}
            /\ last_op = "none"
            /\ last_arg = 0
            /\ considered = 0
            /\ nconsider = 0
            /\ nacts = 0
            /\ nemits = 0
            /\ emitted = Noop
            /\ delivered = Noop
            /\ trace = <<>>
       ELSE InitNoGadget
    /\ unwound = FALSE
    /\ ops = 0
    /\ received = {}
    /\ delta = 0
    /\ IF subject = "MaxCell"
       THEN /\ v0 \in MaxCellInitials
            /\ value = MaxCell_new(v0)
            /\ count = 0
            /\ base = 0
       ELSE IF subject = "Counter"
       THEN /\ count \in CounterStarts
            /\ base = count
            /\ v0 = 0
            /\ value = 0
       ELSE /\ count = 0
            /\ base = 0
            /\ v0 = 0
            /\ value = 0

\* maxcell.receive(data).
MaxCellReceive(data) ==
    /\ subject = "MaxCell"
    /\ ops < MaxOps
    /\ value' = MaxCell_receive(value, data).state
    /\ received' = received \cup {data}
    /\ ops' = ops + 1
    /\ last_op' = "receive"
    /\ last_arg' = data
    /\ nemits' = 1
    /\ emitted' = MaxCell_receive(value, data).effect
    /\ delivered' = MaxCell_receive(value, data).effect
    /\ UNCHANGED <<svars, hvars, subject, count, unwound, v0, base, delta>>
    /\ UNCHANGED <<gadget, considered, nconsider, nacts, trace>>

\* counter.receive(data).  A panic unwinds the caller: no further call is
\* made on the Counter.
CounterReceive(data) ==
    /\ subject = "Counter"
    /\ ~unwound
    /\ ops < MaxOps
    /\ LET o == Counter_receive(count, data, overflow_checks) IN
        /\ unwound' = o.panic
        /\ count' = o.state
        /\ base' = IF ~o.panic /\ data = W_reset THEN 0 ELSE base
        /\ delta' = IF o.panic THEN delta
                    ELSE IF data = W_reset THEN 0
                    ELSE IF data = W_increment THEN delta + 1
                    ELSE IF data = W_decrement THEN delta - 1
                    ELSE delta
        /\ nemits' = IF o.panic THEN 0 ELSE 1
        /\ emitted' = o.effect
        /\ delivered' = o.effect
    /\ ops' = ops + 1
    /\ last_op' = "receive"
    /\ last_arg' = data
    /\ UNCHANGED <<svars, hvars, subject, value, v0, received>>
    /\ UNCHANGED <<gadget, considered, nconsider, nacts, trace>>

\* The states handed to update.
UpdateStates == {-3, 0, 5}

\* maxcell.update(new_state), among them maxcell.update(maxcell.current()).
\* The history starts anew at the state put in.
MaxCellUpdate(new_state) ==
    /\ subject = "MaxCell"
    /\ ops < MaxOps
    /\ value' = MaxCell_update(value, new_state)
    /\ v0' = new_state
    /\ received' = {}
    /\ ops' = ops + 1
    /\ last_op' = "update"
    /\ last_arg' = new_state
    /\ UNCHANGED <<svars, hvars, subject, count, unwound, base, delta>>
    /\ nemits' = 0
    /\ emitted' = Noop
    /\ delivered' = Noop
    /\ UNCHANGED <<gadget, considered, nconsider, nacts, trace>>

\* counter.update(new_state), among them counter.update(counter.current()).
CounterUpdate(new_state) ==
    /\ subject = "Counter"
    /\ ~unwound
    /\ ops < MaxOps
    /\ count' = Counter_update(count, new_state)
    /\ base' = new_state
    /\ delta' = 0
    /\ ops' = ops + 1
    /\ last_op' = "update"
    /\ last_arg' = new_state
    /\ UNCHANGED <<svars, hvars, subject, value, unwound, v0, received>>
    /\ nemits' = 0
    /\ emitted' = Noop
    /\ delivered' = Noop
    /\ UNCHANGED <<gadget, considered, nconsider, nacts, trace>>

\* The number of observers tapped onto a TappingExtension.
MaxTaps == 2

\* The TappingExtensions a run makes.
Tappers == {1}

\* The extensions a run adds to its BasicGadget, in this order: one of these
\* lists, or the beginning of one.
ExtensionLists ==
    { <<Suffix(<<"a">>), Tapping(1), Suffix(<<"b">>)>>,
      <<Tapping(1), Offset(1)>>,
      <<Suffix(<<"b">>), Suffix(<<"a">>)>> }

ListedExtensions == UNION {{l[i] : i \in DOMAIN l} : l \in ExtensionLists}

\* The data received and the effects emitted.
GadgetInputs == {-3, 3, 5}
EmitEffects == {Changed(<<"7">>), Noop}

\* The runs put the gadget together before they call it: TappingExtensions
\* are made and tapped and extensions are added while no call has been made.
\* TappingExtension::new().
NewTapping ==
    /\ subject = "BasicGadget"
    /\ ops = 0
    /\ Len(taps) + 1 \in Tappers
    /\ taps' = Append(taps, 0)
    /\ UNCHANGED <<svars, hvars, lvars, state, consider, actions, extensions,
                   handles, revoked, last_op, last_arg, considered, nconsider,
                   nacts, nemits, emitted, delivered, trace>>

\* The TappingExtensions that add_extension has moved into the gadget.
Added == {extensions[i].taps : i \in {j \in DOMAIN extensions :
                                          extensions[j].kind = "Tapping"}}

\* ext.tap(f) on TappingExtension r, which the caller still owns: f is
\* pushed and a TapHandle with the index of f is returned.
Tap(r) ==
    /\ subject = "BasicGadget"
    /\ ops = 0
    /\ r \in DOMAIN taps \ Added
    /\ taps[r] < MaxTaps
    /\ taps' = [taps EXCEPT ![r] = @ + 1]
    /\ handles' = handles \cup {[id |-> taps[r], taps |-> r]}
    /\ UNCHANGED <<svars, hvars, lvars, state, consider, actions, extensions,
                   revoked, last_op, last_arg, considered, nconsider, nacts,
                   nemits, emitted, delivered, trace>>

\* gadget.add_extension(Box::new(ext)).
AddExtension(ext) ==
    /\ subject = "BasicGadget"
    /\ ops = 0
    /\ \E l \in ExtensionLists : IsPrefix(Append(extensions, ext), l)
    /\ ext.kind = "Tapping" => ext.taps \in DOMAIN taps \ Added
    /\ extensions' = Append(extensions, ext)
    /\ UNCHANGED <<svars, hvars, lvars, state, consider, actions, taps, handles,
                   revoked, last_op, last_arg, considered, nconsider, nacts,
                   nemits, emitted, delivered, trace>>

\* drop(handle): Drop::drop of TapHandle has an empty body, then the fields
\* are dropped (the Rc's count goes down; the Vec stays as it is).
DropHandle(h) ==
    /\ subject = "BasicGadget"
    /\ h \in handles
    /\ handles' = handles \ {h}
    /\ revoked' = revoked \cup {<<h.taps, h.id + 1>>}
    /\ UNCHANGED <<svars, hvars, lvars, state, consider, actions, extensions,
                   taps, last_op, last_arg, considered, nconsider, nacts,
                   nemits, emitted, delivered, trace>>

\* gadget.receive(data).
GadgetReceive(data) ==
    /\ subject = "BasicGadget"
    /\ ops < MaxOps
    /\ LET r == BasicGadget_receive(state, consider, actions, extensions, taps,
                                    data)
       IN  /\ state' = r.state
           /\ considered' = r.considered
           /\ nconsider' = 1
           /\ nacts' = IF r.acted THEN 1 ELSE 0
           /\ nemits' = Len(r.emits)
           /\ emitted' = IF r.emits = <<>> THEN Noop ELSE r.emits[1]
           /\ delivered' = r.final
           /\ trace' = r.calls
    /\ ops' = ops + 1
    /\ last_op' = "receive"
    /\ last_arg' = data
    /\ UNCHANGED <<svars, hvars, subject, value, count, unwound, v0, received,
                   base, delta, consider, actions, extensions, taps, handles,
                   revoked>>

\* gadget.emit(effect).
GadgetEmit(effect) ==
    /\ subject = "BasicGadget"
    /\ ops < MaxOps
    /\ LET e == BasicGadget_emit(extensions, taps, effect)
       IN  /\ delivered' = e.final
           /\ trace' = e.calls
    /\ emitted' = effect
    /\ nemits' = 1
    /\ nconsider' = 0
    /\ nacts' = 0
    /\ considered' = 0
    /\ ops' = ops + 1
    /\ last_op' = "emit"
    /\ last_arg' = 0
    /\ UNCHANGED <<svars, hvars, subject, value, count, unwound, v0, received,
                   base, delta, gadget>>

\* gadget.update(new_state), among them gadget.update(gadget.current()).
GadgetUpdate(new_state) ==
    /\ subject = "BasicGadget"
    /\ ops < MaxOps
    /\ state' = BasicGadget_update(state, new_state)
    /\ ops' = ops + 1
    /\ last_op' = "update"
    /\ last_arg' = new_state
    /\ considered' = 0
    /\ nconsider' = 0
    /\ nacts' = 0
    /\ nemits' = 0
    /\ emitted' = Noop
    /\ delivered' = Noop
    /\ trace' = <<>>
    /\ UNCHANGED <<svars, hvars, subject, value, count, unwound, v0, received,
                   base, delta, consider, actions, extensions, taps, handles,
                   revoked>>

NextLib ==
    \/ \E data \in MaxCellInputs : MaxCellReceive(data)
    \/ \E data \in CounterCommands : CounterReceive(data)
    \/ \E new_state \in UpdateStates \cup {value} : MaxCellUpdate(new_state)
    \/ \E new_state \in UpdateStates \cup {count} : CounterUpdate(new_state)
    \/ NewTapping
    \/ \E r \in Tappers : Tap(r)
    \/ \E ext \in ListedExtensions : AddExtension(ext)
    \/ \E h \in handles : DropHandle(h)
    \/ \E data \in GadgetInputs : GadgetReceive(data)
    \/ \E effect \in EmitEffects : GadgetEmit(effect)
    \/ \E new_state \in UpdateStates \cup {state} : GadgetUpdate(new_state)

SpecLib == InitLib /\ [][NextLib]_vars

(***************************************************************************)
(* Properties of the gadgets                                               *)
(***************************************************************************)
Max(S) == CHOOSE m \in S : \A x \in S : x <= m

\* C3: after any sequence of receive calls, the MaxCell's current() is the
\* maximum of its initial value and all the values received.
MaxCellHoldsMaximum ==
    subject = "MaxCell" => value = Max(received \cup {v0})

\* The MaxCell has received a value below its initial value and one above.
MaxCellSawLowAndHigh ==
    /\ subject = "MaxCell"
    /\ \E a, b \in received : a < v0 /\ b > v0 /\ value = b

\* base + delta is an i32.
NetSumIsI32 ==
    /\ delta > 0 => base <= I32Max - delta
    /\ delta < 0 => base >= I32Min - delta

\* C4: after any sequence of commands, the Counter's current() is the net
\* sum of the +1 and -1 of the increments and decrements since the latest
\* reset (or since creation).
CounterHoldsNetSum ==
    subject = "Counter" /\ ~unwound => NetSumIsI32 /\ count = base + delta

(***************************************************************************)
(* Properties of the server                                                *)
(***************************************************************************)
InDispatch(c) == pc[c] \in {"match", "reply", "unlock"}

\* C1: receive requests that connections issue concurrently never interleave
\* their mutations: the reply of each is the reply it gets when the
\* dispatches run whole, one after the other, in the order they took the
\* lock, and so is the registry whenever no arm is about to act.
ReceivesAreSerialized ==
    /\ \A c \in Conns :
          pc[c] = "unlock" /\ action_of(parts[c]) = W_receive
              => response[c] = expect[c]
    /\ (\A c \in Conns : pc[c] # "match") => gadgets = serial

\* Two connections have issued a receive for the same name; one has been
\* served while the other waits for the lock.
TwoReceivesContend ==
    \E c, d \in Conns :
        /\ c # d
        /\ pc[c] = "unlock" /\ pc[d] = "lock"
        /\ action_of(parts[c]) = W_receive /\ action_of(parts[d]) = W_receive
        /\ gadget_name_of(parts[c]) = gadget_name_of(parts[d])
        /\ gadget_name_of(parts[c]) \in DOMAIN gadgets
        /\ response[c] = to_string(gadgets[gadget_name_of(parts[c])].state)

\* C2: at most one connection is inside a dispatch, and a connection holds
\* the lock exactly from taking it, through the arm acting and the reply
\* being composed, until process_command returns.
DispatchIsExclusive ==
    /\ Cardinality({c \in Conns : InDispatch(c)}) <= 1
    /\ \A c \in Conns : InDispatch(c) <=> lock = c

\* One connection is composing its reply while another waits for the lock.
OneInsideOneWaiting ==
    \E c, d \in Conns : pc[c] = "reply" /\ pc[d] = "lock" /\ lock = c

\* The replies of the two end-to-end runs.
E2ECounterReplies == << <<"1">>, <<"2">>, <<"3">>, <<"3">> >>
E2EMaxCellReplies == << <<"5">>, <<"5">> >>

\* C5: from the default registry, the reply to a receive request with
\* well-formed data, and to a current request, is the text of the gadget's
\* state once the request is applied; three `counter receive increment` are
\* answered 1, 2, 3 and `counter current` then 3; `maxcell receive 5` and
\* then `maxcell receive 3` are answered 5 and 5.
RepliesTellTheState ==
    \A c \in Conns :
        pc[c] = "unlock" =>
            LET name == gadget_name_of(parts[c])
                action == action_of(parts[c])
                data == data_of(parts[c])
            IN  /\ ( /\ action \in {W_receive, W_current}
                     /\ name \in DOMAIN gadgets
                     /\ \/ action = W_current
                        \/ gadgets[name].handler = "CounterHandler"
                        \/ IsIntegerText(data) )
                        => response[c] = to_string(gadgets[name].state)
                /\ e2e_counter > 0 => response[c] = E2ECounterReplies[e2e_counter]
                /\ e2e_maxcell > 0 => response[c] = E2EMaxCellReplies[e2e_maxcell]

\* The counter run is through: `counter current` has been answered 3 after
\* three increments.
CounterRunAnswered ==
    \E c \in Conns :
        /\ pc[c] = "unlock" /\ e2e_counter = 4
        /\ response[c] = <<"3">>
        /\ gadgets[W_counter].state = 3

\* C6: a receive or current request for a name that is not registered is
\* answered with an ERROR reply that names the gadget as not found, and it
\* leaves the registry as it was.
UnknownNameIsNotFound ==
    \A c \in Conns :
        ( /\ pc[c] = "unlock"
          /\ action_of(parts[c]) \in {W_receive, W_current}
          /\ gadget_name_of(parts[c]) \notin DOMAIN before )
            => /\ IsError(response[c])
               /\ Contains(response[c], <<"'">> \o gadget_name_of(parts[c]) \o <<"'">>)
               /\ Contains(response[c], <<"n", "o", "t", " ", "f", "o", "u", "n", "d">>)
               /\ gadgets = before

\* `bogus receive increment` has been answered.
BogusReceiveAnswered ==
    \E c \in Conns :
        /\ pc[c] = "unlock"
        /\ line[c] = L_bogus_receive
        /\ W_bogus \notin DOMAIN gadgets
        /\ IsError(response[c])

\* C7: a receive request to a maximum-tracker whose data is no integer (the
\* empty data too) is answered with an error reply and leaves the tracker's
\* state as it was.
BadIntegerChangesNothing ==
    \A c \in Conns :
        ( /\ pc[c] = "unlock"
          /\ action_of(parts[c]) = W_receive
          /\ gadget_name_of(parts[c]) \in DOMAIN before
          /\ before[gadget_name_of(parts[c])].handler = "MaxCellHandler"
          /\ IsNoInteger(data_of(parts[c])) )
            => /\ IsError(response[c])
               /\ gadgets = before

\* `maxcell receive` with no data has been answered, the maximum-tracker
\* holding a value it received before.
EmptyDataAnswered ==
    \E c \in Conns :
        /\ pc[c] = "unlock"
        /\ line[c] = L_max_empty
        /\ IsError(response[c])
        /\ gadgets[W_maxcell] = MaxCellHandler(3)

\* C8: a malformed request is answered with an error reply, leaves the
\* registry as it was, and leaves the connection open: once the reply is
\* written the thread is back at reading the next line (unless the write
\* itself fails).
MalformedIsAnswered ==
    [][\A c \in Conns :
        /\ ( pc[c] = "read" /\ pc'[c] \in {"lock", "write"} /\ Malformed(parts'[c]) )
              => /\ gadgets' = gadgets
                 /\ Len(parts'[c]) < 2 => pc'[c] = "write" /\ IsError(response'[c])
        /\ ( pc[c] = "match" /\ Malformed(parts[c]) )
              => gadgets' = gadgets /\ pc'[c] \in {"match", "reply"}
        /\ ( pc[c] = "reply" /\ Malformed(parts[c]) /\ pc'[c] # "reply" )
              => gadgets' = gadgets /\ pc'[c] = "unlock" /\ IsError(response'[c])
        /\ ( pc[c] = "unlock" /\ Malformed(parts[c]) )
              => gadgets' = gadgets /\ response'[c] = response[c]
        /\ ( pc[c] = "write" /\ Malformed(parts[c]) /\ pc'[c] # "write" )
              => /\ IsError(response[c])
                 /\ pc'[c] \in {"read", "panicked"}
                 /\ pc'[c] = "read" => answered'[c] = "malformed"
      ]_vars

\* After the error reply to a malformed request was written on a connection,
\* the next line on it has been read and is being dispatched.
NextLineAfterError ==
    \E c \in Conns :
        /\ answered[c] = "malformed"
        /\ nread[c] = 2
        /\ pc[c] = "unlock"
        /\ line[c] = L_max3
        /\ response[c] = <<"3">>

\* C9: the request line `list` is answered with the names registered in the
\* registry, each once.
ListIsAnswered ==
    \A c \in Conns :
        pc[c] = "write" /\ line[c] = L_list
            => \E keys \in KeyOrders(gadgets) :
                   response[c] = GADGETS_HDR \o join(keys, COMMA_SP)

\* C10: `counter create <name>` registers a counter at 0 under <name>,
\* replacing whatever was registered there, and is answered with a
\* confirmation; a `<name> receive increment` dispatched next is answered 1.
CreateCounterIsFresh ==
    \A c \in Conns :
        pc[c] = "unlock" =>
            LET name == gadget_name_of(parts[c])
                action == action_of(parts[c])
                data == data_of(parts[c])
            IN  /\ (action = W_create /\ name = W_counter)
                      => /\ data \in DOMAIN gadgets
                         /\ gadgets[data] = CounterHandler(0)
                         /\ \A k \in DOMAIN before \ {data} :
                                k \in DOMAIN gadgets /\ gadgets[k] = before[k]
                         /\ ~IsError(response[c])
                         /\ Contains(response[c], <<"'">> \o data \o <<"'">>)
                /\ (action = W_receive /\ data = W_increment /\ last_created = name)
                      => response[c] = <<"1">>

\* `counter create maxcell` has replaced the maximum-tracker, which held 0 as
\* a MaxCell, and `maxcell receive increment`, dispatched next, is answered 1.
ReplacedThenIncremented ==
    \E c \in Conns :
        /\ pc[c] = "unlock"
        /\ line[c] = L_maxcell_increment
        /\ last_created = W_maxcell
        /\ response[c] = <<"1">>

\* The positions at which a thread is inside handle_client's loop with a
\* request line read and its reply not yet written.
InFlight(c) == pc[c] \in {"lock", "match", "reply", "unlock", "write"}

\* C11: on each connection every request line read gets one reply line, and
\* the reply to a line is written before the next line is read: the thread
\* reads only with every line read so far answered, and between reading a
\* line and writing its reply it holds that line alone (a thread that
\* panicked left the last line it read unanswered).
OneReplyPerLine ==
    \A c \in Conns :
        /\ pc[c] \in {"read", "closed", "broken"}
              => nwritten[c] = nread[c] /\ line[c] = <<>>
        /\ InFlight(c)
              => /\ nwritten[c] = nread[c] - 1
                 /\ line[c] \in vocabulary
                 /\ parts[c] = parts_of(line[c])
        /\ pc[c] = "write"
              => /\ response[c] # <<>>
                 /\ Len(parts[c]) < 2 => response[c] = ERR_FORMAT
        /\ pc[c] = "panicked" => nwritten[c] = nread[c] - 1

\* A connection has read two lines and both replies are written, while the
\* other connection has its first reply still unwritten.
TwoLinesTwoReplies ==
    \E c, d \in Conns :
        /\ pc[c] = "read" /\ nread[c] = 2 /\ nwritten[c] = 2
        /\ pc[d] = "write" /\ nread[d] = 1 /\ nwritten[d] = 0

\* The connections whose thread has ended on a failed read or write.
Failed(c) == pc[c] \in {"broken", "panicked"}

\* C12: a read or a write that fails ends the thread of its connection and
\* nothing else: the step leaves the registry, the Mutex and every other
\* thread as they were, the failed thread does not hold the Mutex, the Mutex
\* is not poisoned, and another thread that waits for the Mutex afterwards
\* gets it and has its request dispatched.
FailureIsLocal ==
    /\ [](\A c \in Conns : Failed(c) => lock # c /\ ~poisoned)
    /\ [][\A c \in Conns :
            /\ ( pc[c] \in {"read", "write"} /\ Failed(c)' )
                  => /\ gadgets' = gadgets
                     /\ lock' = lock
                     /\ poisoned' = poisoned
                     /\ \A d \in Conns \ {c} :
                            /\ pc'[d] = pc[d]
                            /\ response'[d] = response[d]
                            /\ nwritten'[d] = nwritten[d]
            /\ ( Failed(c) /\ \E d \in Conns \ {c} :
                                 pc[d] = "lock" /\ pc'[d] # "lock" )
                  => \E d \in Conns \ {c} : pc'[d] = "match" /\ lock' = d
          ]_vars

\* The write of a reply has failed on one connection; the other connection
\* has read a line since and the Mutex is free for it.
OtherWaitsAfterWriteFailure ==
    \E c, d \in Conns :
        /\ c # d
        /\ pc[c] = "panicked" /\ nread[c] = 1
        /\ pc[d] = "lock" /\ nread[d] = 2 /\ nwritten[d] = 1
        /\ lock = 0 /\ ~poisoned

\* C18: a thread that is blocked reading its next line or writing a reply
\* does not hold the Mutex, so a client that sends nothing or does not read
\* its reply keeps no other thread from the Mutex: a thread that waits for
\* it while every other thread is blocked on its client finds it free.
NoLockWhileBlocked ==
    /\ \A c \in Conns : pc[c] \in {"read", "write"} => lock # c
    /\ \A d \in Conns :
          ( /\ pc[d] = "lock"
            /\ \A c \in Conns \ {d} : pc[c] \in {"read", "write"} )
              => lock = 0

\* One client has not taken its first reply and another has sent nothing
\* more after its first; the second one's thread was answered once.
HolderBesideStalledWriter ==
    \E c, d \in Conns :
        /\ pc[c] = "write" /\ nwritten[c] = 0
        /\ pc[d] = "unlock" /\ lock = d /\ nwritten[d] = 1

\* C20: no request removes a name from the registry; a receive or a current
\* for name n leaves the set of names and every entry but n's as they were,
\* a current leaves n's too; only create adds a name or replaces an entry;
\* counter and maxcell are registered throughout.
RegistryOnlyGrows ==
    /\ []({W_counter, W_maxcell} \subseteq DOMAIN gadgets)
    /\ [][/\ DOMAIN gadgets \subseteq DOMAIN gadgets'
          /\ (\A c \in Conns : pc[c] # "match") => gadgets' = gadgets
          /\ \A c \in Conns :
                ( pc[c] = "match" /\ pc'[c] # "match" ) =>
                    LET name == gadget_name_of(parts[c])
                        action == action_of(parts[c])
                    IN  /\ action # W_create
                              => /\ DOMAIN gadgets' = DOMAIN gadgets
                                 /\ \A k \in DOMAIN gadgets :
                                        gadgets'[k].handler = gadgets[k].handler
                        /\ action = W_receive
                              => \A k \in DOMAIN gadgets \ {name} :
                                     gadgets'[k] = gadgets[k]
                        /\ action # W_receive /\ action # W_create
                              => gadgets' = gadgets
         ]_vars

\* A counter was created beside the default gadgets and has received an
\* increment: it holds 1 and the default gadgets are as GadgetServer::new
\* left them.
CreatedCounterCountsAlone ==
    \E c \in Conns :
        /\ pc[c] = "unlock"
        /\ line[c] = L_myctr_increment
        /\ W_myctr \in DOMAIN gadgets
        /\ gadgets[W_myctr] = CounterHandler(1)
        /\ gadgets[W_counter] = CounterHandler(0)
        /\ gadgets[W_maxcell] = MaxCellHandler(0)


\* C19: under fair scheduling every request line read is answered: a
\* dispatch that waits for the Mutex gets it, ends and hands its reply to the
\* writer with the Mutex released, whatever the requests before it were (an
\* increment of a counter at the largest i32 and a decrement of one at the
\* smallest among them).
EveryLineIsAnswered ==
    \A c \in Conns : (pc[c] = "lock") ~> (pc[c] = "write")

(***************************************************************************)
(* Properties of the BasicGadget and its extensions                        *)
(***************************************************************************)
\* En.wrap_emit(... E2.wrap_emit(E1.wrap_emit(e)) ...) for exts = E1 .. En.
RECURSIVE Through(_, _)
Through(exts, e) ==
    IF exts = <<>> THEN e
    ELSE wrap_emit(exts[Len(exts)], taps,
                   Through(SubSeq(exts, 1, Len(exts) - 1), e)).effect

\* The observers of the extensions from the k-th on, each once, in the order
\* of the extensions and of their registration, each with effect e as the
\* extensions before its own have transformed it.
RECURSIVE ObserversFrom(_, _)
ObserversFrom(k, e) ==
    IF k > Len(extensions) THEN <<>>
    ELSE (IF extensions[k].kind = "Tapping"
          THEN [i \in 1..taps[extensions[k].taps] |->
                   [tap |-> <<extensions[k].taps, i>>,
                    effect |-> Through(SubSeq(extensions, 1, k - 1), e)]]
          ELSE <<>>) \o ObserversFrom(k + 1, e)

\* C13: emit(e) on a BasicGadget with extensions E1 .. En ends with
\* En.wrap_emit(...E1.wrap_emit(e)), and every observer of a tapping
\* extension at position k is called once, in registration order, with e as
\* E1 .. E(k-1) have transformed it.
EmitGoesThroughInOrder ==
    ( subject = "BasicGadget" /\ nemits = 1 )
        => /\ delivered = Through(extensions, emitted)
           /\ trace = ObserversFrom(1, emitted)

\* emit(Changed("7")) went through a suffix a, a tapping extension with two
\* observers and a suffix b: the observers saw 7a, the effect ended as 7ab.
TappedBetweenSuffixes ==
    /\ subject = "BasicGadget" /\ last_op = "emit"
    /\ extensions = <<Suffix(<<"a">>), Tapping(1), Suffix(<<"b">>)>>
    /\ emitted = Changed(<<"7">>)
    /\ delivered = Changed(<<"7", "a", "b">>)
    /\ trace = << [tap |-> <<1, 1>>, effect |-> Changed(<<"7", "a">>)],
                  [tap |-> <<1, 2>>, effect |-> Changed(<<"7", "a">>)] >>

\* C14: an observer whose TapHandle was dropped is not invoked by any later
\* emission.
RevokedIsNotInvoked ==
    [][( subject = "BasicGadget" /\ ops' = ops + 1 )
          => \A i \in DOMAIN trace' : trace'[i].tap \notin revoked]_vars

\* En.wrap_receive(... E1.wrap_receive(data)) for exts = E1 .. En.
RECURSIVE ReceivedThrough(_, _)
ReceivedThrough(exts, data) ==
    IF exts = <<>> THEN data
    ELSE wrap_receive(exts[Len(exts)],
                      ReceivedThrough(SubSeq(exts, 1, Len(exts) - 1), data))

\* C15: receive hands the data to every extension's wrap_receive, in
\* registration order, and the decision function is called with the result.
ConsiderSeesWrappedData ==
    ( subject = "BasicGadget" /\ last_op = "receive" )
        => considered = ReceivedThrough(extensions, last_arg)

\* current() of the gadget of the run.
Current ==
    IF subject = "MaxCell" THEN value
    ELSE IF subject = "Counter" THEN count
    ELSE state

\* C16: on each of the three gadgets update(s) makes current() s and calls
\* neither the decision function nor an action nor emit (no observer is
\* invoked); update(current()) leaves current() as it was.
UpdateOnlySetsTheState ==
    [][( ops' = ops + 1 /\ last_op' = "update" )
          => /\ Current' = last_arg'
             /\ last_arg' = Current => Current' = Current
             /\ nconsider' = 0 /\ nacts' = 0 /\ nemits' = 0
             /\ subject = "BasicGadget" => trace' = <<>>
      ]_vars

\* A MaxCell that had received or been given more was set to -3 by update.
MaxCellSetBelow ==
    /\ subject = "MaxCell"
    /\ last_op = "update" /\ last_arg = -3
    /\ ops = 2
    /\ value = -3
    /\ nemits = 0

\* C17: receive on a BasicGadget whose decision function yields Nothing, or
\* Action(name) for a name the action table lacks, leaves the state as it
\* was and calls neither an action nor emit (no observer is invoked); for a
\* name in the table the action runs once on the state and emit is called
\* once, with the effect the action returned.
ReceiveActsOnceOrNotAtAll ==
    [][( subject = "BasicGadget" /\ ops' = ops + 1 /\ last_op' = "receive" )
          => LET result == consider_call(consider, state, last_arg') IN
             IF result.tag = "Nothing" \/ result.name \notin actions
             THEN /\ state' = state
                  /\ nacts' = 0 /\ nemits' = 0
                  /\ trace' = <<>>
             ELSE /\ nacts' = 1 /\ nemits' = 1
                  /\ state' = action_call(result.name, state, last_arg').state
                  /\ emitted' = action_call(result.name, state, last_arg').effect
      ]_vars

\* A gadget that keeps the maximum, with two observers tapped on, holds 5
\* and has received 3: nothing was decided and no observer was invoked.
NothingDecidedNothingSeen ==
    /\ subject = "BasicGadget" /\ consider = "max"
    /\ last_op = "receive" /\ last_arg = 3
    /\ state = 5
    /\ \E k \in DOMAIN extensions :
          extensions[k].kind = "Tapping" /\ taps[extensions[k].taps] = 2
    /\ nconsider = 1 /\ nacts = 0 /\ nemits = 0
    /\ trace = <<>>
====
